---------------------------- MODULE Spec2Model ----------------------------
(***************************************************************************)
(* Model of the CPIT solver (src/genetic_algorithmCPIT.py): the block      *)
(* model loader MineLibCPIT, the feasibility check and repair, the         *)
(* economic evaluator calcular_vpl, the genetic loop executar and the      *)
(* baseline_toposort.                                                      *)
(*                                                                         *)
(* Block ids are the integers 0..n-1; Python lists are TLA+ sequences      *)
(* (position k of the list is index k+1 of the sequence).                  *)
(*                                                                         *)
(* Money: calcular_vpl works in floats; the model keeps the exact rational *)
(* value multiplied by CustoDen * TaxaNum^(MaxAno-1), an integer, so that  *)
(* values are compared exactly as rationals.                               *)
(***************************************************************************)
EXTENDS Integers, Sequences, FiniteSets

\* ------------------------------------------------------------------ bounds
NumBlocks == 3
PopSize == 2
NumGeracoes == 2

\* ------------------------------------------------------- program constants
\* taxa_desconto = 0.15, so 1 + taxa_desconto = TaxaNum / TaxaDen
TaxaNum == 23
TaxaDen == 20
\* mining cost 0.75 per tonne = CustoNum / CustoDen
CustoNum == 3
CustoDen == 4
\* default of the parameter capacidade
CapacidadePadrao == 10000000
\* destination code of ore
DestMinerio == 1
\* stand-in for -np.inf: below every value the model can reach
MenosInf == -2000000000
\* _preparar_dados fallbacks
TonnPadrao == 100
DestPadrao == 1
ValorPorNivel == 10

\* An upper bound on the period index: each block advances ano at most once
\* and the first counted ore block fits the capacity in every instance used;
\* the largest instance (the worked example) has NumBlocks + 1 blocks.
MaxAno == NumBlocks + 1

VARIABLES
    \* MineLibCPIT
    arquivo_csv,     \* the table in the file: column name -> column
    df,              \* the data frame: column name -> column (sequence of cells)
    ids,             \* self.ids
    preds_dict,      \* self.preds_dict : id -> list of predecessor ids
    succs_dict,      \* self.succs_dict : id -> list of successor ids
    tonn_dict,       \* self.tonn_dict
    dest_dict,       \* self.dest_dict
    val_ore_dict,    \* self.val_ore_dict
    erro,            \* the exception raised by the constructor, "" if none
    \* the sequence handed to reparar_solucao / calcular_vpl
    solucao,
    solucao_corrigida,   \* result of reparar_solucao(solucao)
    solucao_corrigida2,  \* result of reparar_solucao(solucao_corrigida)
    \* calcular_vpl locals
    capacidade, pos, ano, ton_acumulada, valor_total, visitados,
    \* baseline_toposort locals
    ordem, bl_visitados, preds_restantes, bl_vpl,
    \* executar: lists live in a heap so that aliasing is visible
    heap,            \* address -> list (<<>> = free)
    pop,             \* list of addresses
    nova_pop,        \* list of addresses
    melhor_solucao,  \* address, 0 = None
    melhor_vpl,
    historico,
    g,
    \* control position of whichever routine the specification runs
    pc

vars == <<arquivo_csv, df, ids, preds_dict, succs_dict, tonn_dict, dest_dict, val_ore_dict,
          erro, solucao, solucao_corrigida, solucao_corrigida2,
          capacidade, pos, ano, ton_acumulada, valor_total, visitados,
          ordem, bl_visitados, preds_restantes, bl_vpl,
          heap, pop, nova_pop, melhor_solucao, melhor_vpl, historico, g, pc>>

instVars == <<arquivo_csv, df, ids, preds_dict, succs_dict, tonn_dict, dest_dict,
              val_ore_dict, erro>>
repVars == <<solucao_corrigida, solucao_corrigida2>>
evalVars == <<capacidade, pos, ano, ton_acumulada, valor_total, visitados>>
blVars == <<ordem, bl_visitados, preds_restantes, bl_vpl>>
gaVars == <<heap, pop, nova_pop, melhor_solucao, melhor_vpl, historico, g>>

\* ----------------------------------------------------------------- helpers
Range(s) == {s[i] : i \in 1..Len(s)}

Blocos(n) == 0..(n - 1)

\* the list [0, 1, ..., n-1]
ListaIds(n) == [i \in 1..n |-> i - 1]

\* all lists over S without repetition
ListasSemRep(S) ==
    UNION {{s \in [1..k -> S] : \A i, j \in 1..k : s[i] = s[j] => i = j} :
           k \in 0..Cardinality(S)}

\* all permutations of the ids 0..n-1
Permutacoes(n) ==
    {s \in [1..n -> Blocos(n)] : \A i, j \in 1..n : s[i] = s[j] => i = j}

\* the acyclic precedence relations over n blocks whose ids are numbered
\* topologically: the predecessors of b are among 0..b-1, listed in any order
RECURSIVE DAGsNumerados(_)
DAGsNumerados(n) ==
    IF n = 0 THEN {<<>>}
    ELSE {[b \in Blocos(n) |-> IF b = n - 1 THEN l ELSE f[b]] :
             f \in DAGsNumerados(n - 1), l \in ListasSemRep(Blocos(n - 1))}

\* the relation preds with every id b renamed perm[b + 1]
Renomear(preds, perm, n) ==
    [b \in Blocos(n) |->
        LET orig == CHOOSE c \in Blocos(n) : perm[c + 1] = b
        IN [k \in 1..Len(preds[orig]) |-> perm[preds[orig][k] + 1]]]

\* every precedence relation over n blocks that is acyclic and whose
\* predecessor ids belong to the id set, the lists in any order: each one is
\* a topologically numbered relation with its ids renamed
DAGs(n) ==
    {Renomear(f, perm, n) : f \in DAGsNumerados(n), perm \in Permutacoes(n)}

\* ---------------------------------------------------------- MineLibCPIT
\* the relation taken in the wrong direction: succs[p] = preds[p]
calcular_sucessores_invertido(lids, preds) ==
    [p \in Range(lids) |-> preds[p]]

\* _calcular_sucessores: iterate preds_dict in insertion (id) order
calcular_sucessores(lids, preds) ==
    [p \in Range(lids) |->
        SelectSeq(lids, LAMBDA b : p \in Range(preds[b]))]

\* ------------------------------------------------- verificar / reparar
RECURSIVE verificar_de(_, _, _)
verificar_de(sol, i, vis) ==
    IF i > Len(sol) THEN TRUE
    ELSE IF \E pred \in Range(preds_dict[sol[i]]) : pred \notin vis THEN FALSE
    ELSE verificar_de(sol, i + 1, vis \cup {sol[i]})

verificar_factibilidade(sol) == verificar_de(sol, 1, {})

\* inner loop of reparar_solucao: for p in preds: if p not in visitados ...
RECURSIVE reparar_preds(_, _)
reparar_preds(preds, st) ==
    IF preds = <<>> THEN st
    ELSE LET p == Head(preds) IN
         IF p \notin st.vis
         THEN reparar_preds(Tail(preds),
                            [cor |-> Append(st.cor, p), vis |-> st.vis \cup {p}])
         ELSE reparar_preds(Tail(preds), st)

\* the same loop body without the "if b not in visitados" test
reparar_bloco_semteste(st, b) ==
    LET st1 == reparar_preds(preds_dict[b], st) IN
    [cor |-> Append(st1.cor, b), vis |-> st1.vis \cup {b}]

\* one iteration of the outer loop of reparar_solucao
reparar_bloco(st, b) ==
    LET st1 == reparar_preds(preds_dict[b], st) IN
    IF b \notin st1.vis
    THEN [cor |-> Append(st1.cor, b), vis |-> st1.vis \cup {b}]
    ELSE st1

RECURSIVE reparar_de(_, _, _)
reparar_de(sol, i, st) ==
    IF i > Len(sol) THEN st.cor
    ELSE reparar_de(sol, i + 1, reparar_bloco(st, sol[i]))

reparar_solucao(sol) == reparar_de(sol, 1, [cor |-> <<>>, vis |-> {}])

\* -------------------------------------------------------- calcular_vpl
\* 1 / (1 + taxa_desconto)^(a - 1), times TaxaNum^(MaxAno - 1)
Desconto(a) == (TaxaDen ^ (a - 1)) * (TaxaNum ^ (MaxAno - a))

\* cash of block b, times CustoDen
Cash(b) ==
    IF dest_dict[b] = DestMinerio
    THEN CustoDen * val_ore_dict[b] - CustoNum * tonn_dict[b]
    ELSE 0 - CustoNum * tonn_dict[b]

\* the loop body with the capacity test written >= instead of >
vpl_bloco_maiorigual(st, b, cap) ==
    IF \A p \in Range(preds_dict[b]) : p \in st.vis
    THEN LET minerio == dest_dict[b] = DestMinerio
             rola == minerio /\ st.ton + tonn_dict[b] >= cap
             ano1 == IF rola THEN st.ano + 1 ELSE st.ano
             ton1 == IF ~minerio THEN st.ton
                     ELSE (IF rola THEN 0 ELSE st.ton) + tonn_dict[b]
         IN [ano |-> ano1, ton |-> ton1,
             val |-> st.val + Cash(b) * Desconto(ano1),
             vis |-> st.vis \cup {b}]
    ELSE st

\* the loop body without the predecessor test
vpl_bloco_semteste(st, b, cap) ==
    LET minerio == dest_dict[b] = DestMinerio
        rola == minerio /\ st.ton + tonn_dict[b] > cap
        ano1 == IF rola THEN st.ano + 1 ELSE st.ano
        ton1 == IF ~minerio THEN st.ton
                ELSE (IF rola THEN 0 ELSE st.ton) + tonn_dict[b]
    IN [ano |-> ano1, ton |-> ton1,
        val |-> st.val + Cash(b) * Desconto(ano1),
        vis |-> st.vis \cup {b}]

\* one iteration of the loop of calcular_vpl over block b
vpl_bloco(st, b, cap) ==
    IF \A p \in Range(preds_dict[b]) : p \in st.vis
    THEN LET minerio == dest_dict[b] = DestMinerio
             rola == minerio /\ st.ton + tonn_dict[b] > cap
             ano1 == IF rola THEN st.ano + 1 ELSE st.ano
             ton1 == IF ~minerio THEN st.ton
                     ELSE (IF rola THEN 0 ELSE st.ton) + tonn_dict[b]
         IN [ano |-> ano1, ton |-> ton1,
             val |-> st.val + Cash(b) * Desconto(ano1),
             vis |-> st.vis \cup {b}]
    ELSE st

vpl_inicio == [ano |-> 1, ton |-> 0, val |-> 0, vis |-> {}]

RECURSIVE vpl_de(_, _, _, _)
vpl_de(sol, i, st, cap) ==
    IF i > Len(sol) THEN st.val
    ELSE vpl_de(sol, i + 1, vpl_bloco(st, sol[i], cap), cap)

calcular_vpl(sol, cap) == vpl_de(sol, 1, vpl_inicio, cap)

\* ---------------------------------------------- population and operators
\* gerar_solucao_aleatoria, embaralhada being the shuffled copy of ids
gerar_solucao_aleatoria(embaralhada) ==
    IF ~verificar_factibilidade(embaralhada)
    THEN reparar_solucao(embaralhada)
    ELSE embaralhada

\* crossover with cut points a < b (0-based, as sorted(random.sample(range(n), 2)))
crossover(pai1, pai2, a, b) ==
    LET trecho == SubSeq(pai1, a + 1, b)
        filho == trecho \o SelectSeq(pai2, LAMBDA x : x \notin Range(trecho))
    IN IF ~verificar_factibilidade(filho) THEN reparar_solucao(filho) ELSE filho

\* mutacao; sorteio is random.random() < taxa_mutacao, i and j are 0-based
mutacao(sol0, sorteio, i, j) ==
    IF sorteio
    THEN LET sol == [k \in 1..Len(sol0) |->
                        IF k = i + 1 THEN sol0[j + 1]
                        ELSE IF k = j + 1 THEN sol0[i + 1]
                        ELSE sol0[k]]
         IN IF ~verificar_factibilidade(sol) THEN reparar_solucao(sol) ELSE sol
    ELSE sol0

\* max(fitness) and np.argmax(fitness) (first position of the maximum)
MaxFit(fitness) ==
    CHOOSE m \in Range(fitness) : \A v \in Range(fitness) : v <= m

ArgMax(fitness) ==
    CHOOSE i \in 1..Len(fitness) :
        /\ fitness[i] = MaxFit(fitness)
        /\ \A k \in 1..(i - 1) : fitness[k] # MaxFit(fitness)

\* the elite update with the assignments outside the "if"
atualizar_elite_sempre(vpl, sol, fitness, nova) ==
    [vpl |-> MaxFit(fitness), sol |-> nova[ArgMax(fitness)]]

\* the elite update that forgets to replace the sequence
atualizar_elite_so_valor(vpl, sol, fitness, nova) ==
    IF MaxFit(fitness) > vpl
    THEN [vpl |-> MaxFit(fitness), sol |-> sol]
    ELSE [vpl |-> vpl, sol |-> sol]

\* melhor_gen = max(fitness); if melhor_gen > self.melhor_vpl: ...
atualizar_elite(vpl, sol, fitness, nova) ==
    IF MaxFit(fitness) > vpl
    THEN [vpl |-> MaxFit(fitness), sol |-> nova[ArgMax(fitness)]]
    ELSE [vpl |-> vpl, sol |-> sol]

\* ---------------------------------------------------------- shared Init
Nenhum == <<>>

InstanciaPadrao(n, preds) ==
    /\ arquivo_csv = Nenhum
    /\ df = Nenhum
    /\ erro = ""
    /\ ids = ListaIds(n)
    /\ preds_dict = preds
    /\ succs_dict = calcular_sucessores(ListaIds(n), preds)

AtributosPadrao(n) ==
    /\ tonn_dict = [b \in Blocos(n) |-> TonnPadrao]
    /\ dest_dict = [b \in Blocos(n) |-> DestPadrao]
    /\ val_ore_dict = [b \in Blocos(n) |-> 0]

RepOcioso == solucao_corrigida = Nenhum /\ solucao_corrigida2 = Nenhum

EvalOcioso ==
    /\ capacidade = CapacidadePadrao
    /\ pos = 0 /\ ano = 1 /\ ton_acumulada = 0 /\ valor_total = 0
    /\ visitados = {}

BlOcioso ==
    /\ ordem = <<>> /\ bl_visitados = {} /\ preds_restantes = Nenhum
    /\ bl_vpl = 0

GaOcioso ==
    /\ heap = Nenhum /\ pop = <<>> /\ nova_pop = <<>>
    /\ melhor_solucao = 0 /\ melhor_vpl = MenosInf /\ historico = <<>>
    /\ g = 0

\* ====================================================== repair (SpecRepair)
InitRepair ==
    /\ \E n \in 2..NumBlocks :
         /\ \E preds \in DAGs(n) : InstanciaPadrao(n, preds)
         /\ AtributosPadrao(n)
         /\ solucao \in Permutacoes(n)
    /\ RepOcioso /\ EvalOcioso /\ BlOcioso /\ GaOcioso
    /\ pc = "entrada"

Reparar ==
    /\ pc = "entrada"
    /\ solucao_corrigida' = reparar_solucao(solucao)
    /\ pc' = "reparada"
    /\ UNCHANGED <<instVars, solucao, solucao_corrigida2, evalVars, blVars, gaVars>>

RepararDeNovo ==
    /\ pc = "reparada"
    /\ solucao_corrigida2' = reparar_solucao(solucao_corrigida)
    /\ pc' = "reparada2"
    /\ UNCHANGED <<instVars, solucao, solucao_corrigida, evalVars, blVars, gaVars>>

NextRepair == Reparar \/ RepararDeNovo

SpecRepair == InitRepair /\ [][NextRepair]_vars

\* position-wise statement of feasibility: every predecessor of the block at
\* position i appears at some position < i
Factivel(sol) ==
    \A i \in 1..Len(sol) : \A p \in Range(preds_dict[sol[i]]) :
        \E j \in 1..(i - 1) : sol[j] = p

\* sol contains every id exactly once
EhPermutacao(sol) ==
    /\ Len(sol) = Len(ids)
    /\ Range(sol) = Range(ids)

\* C2: after reparar_solucao the sequence passes verificar_factibilidade and
\* every block comes after all of its predecessors.
C2_RepairFeasible ==
    pc \in {"reparada", "reparada2"} =>
        verificar_factibilidade(solucao_corrigida) /\ Factivel(solucao_corrigida)

\* C3: repairing a repaired sequence gives the same sequence.
C3_RepairIdempotent ==
    pc = "reparada2" => solucao_corrigida2 = solucao_corrigida

\* C4: the repaired sequence has every id of the input exactly once.
C4_RepairPreservesIds ==
    /\ pc \in {"reparada", "reparada2"} => EhPermutacao(solucao_corrigida)
    /\ pc = "reparada2" => EhPermutacao(solucao_corrigida2)

\* a repair that had to move something: the input was infeasible
C4_Witness ==
    /\ pc = "reparada2"
    /\ ~Factivel(solucao)
    /\ solucao_corrigida # solucao
    /\ EhPermutacao(solucao_corrigida)


\* ==================================================== evaluator (SpecEval)
\* Evaluation only tests membership in the predecessor lists, so the
\* instances are taken up to renaming of the ids: predecessors have smaller
\* ids and the lists are ascending.  The sequence is any permutation.
DAGsTopo(n) ==
    {preds \in DAGsNumerados(n) :
        \A b \in Blocos(n) :
            \A i, j \in 1..Len(preds[b]) : i < j => preds[b][i] < preds[b][j]}

Perfis ==
    {[dest |-> 1, tonn |-> 10, val |-> 8],
     [dest |-> 2, tonn |-> 10, val |-> 0],
     [dest |-> 1, tonn |-> 5, val |-> 2]}

Capacidades == {15, CapacidadePadrao}

\* the worked example: 0 ore 10 t value 5; 1 waste 10 t after 0;
\* 2 ore 10 t value 8 after 0; 3 ore 5 t value 2 after 1 and 2
ExemploPreds == <<<<>>, <<0>>, <<0>>, <<1, 2>>>>
ExemploDest == <<1, 0, 1, 1>>
ExemploTonn == <<10, 10, 10, 5>>
ExemploVal == <<5, 0, 8, 2>>

EhExemplo ==
    /\ ids = ListaIds(4)
    /\ preds_dict = [b \in Blocos(4) |-> ExemploPreds[b + 1]]
    /\ dest_dict = [b \in Blocos(4) |-> ExemploDest[b + 1]]
    /\ tonn_dict = [b \in Blocos(4) |-> ExemploTonn[b + 1]]
    /\ val_ore_dict = [b \in Blocos(4) |-> ExemploVal[b + 1]]

\* two ore blocks of 10 t, no precedences
EhExemploAB ==
    /\ ids = ListaIds(2)
    /\ \A b \in Blocos(2) :
         /\ preds_dict[b] = <<>>
         /\ dest_dict[b] = DestMinerio
         /\ tonn_dict[b] = 10

InitEval ==
    /\ \/ \E n \in 2..NumBlocks :
            /\ \E preds \in DAGsTopo(n) : InstanciaPadrao(n, preds)
            /\ \E pf \in [Blocos(n) -> Perfis] :
                 /\ dest_dict = [b \in Blocos(n) |-> pf[b].dest]
                 /\ tonn_dict = [b \in Blocos(n) |-> pf[b].tonn]
                 /\ val_ore_dict = [b \in Blocos(n) |-> pf[b].val]
            /\ solucao \in Permutacoes(n)
            /\ capacidade \in Capacidades
       \/ /\ InstanciaPadrao(4, [b \in Blocos(4) |-> ExemploPreds[b + 1]])
          /\ EhExemplo
          /\ solucao \in Permutacoes(4)
          /\ capacidade = 15
    /\ pos = 0 /\ ano = 1 /\ ton_acumulada = 0 /\ valor_total = 0
    /\ visitados = {}
    /\ RepOcioso /\ BlOcioso /\ GaOcioso
    /\ pc = "avaliando"

\* one iteration of "for b in solucao"
AvaliarBloco ==
    /\ pc = "avaliando"
    /\ pos < Len(solucao)
    /\ LET st == vpl_bloco([ano |-> ano, ton |-> ton_acumulada,
                            val |-> valor_total, vis |-> visitados],
                           solucao[pos + 1], capacidade)
       IN /\ ano' = st.ano
          /\ ton_acumulada' = st.ton
          /\ valor_total' = st.val
          /\ visitados' = st.vis
    /\ pos' = pos + 1
    /\ UNCHANGED <<instVars, solucao, repVars, capacidade, blVars, gaVars, pc>>

\* return valor_total
AvaliarRetornar ==
    /\ pc = "avaliando"
    /\ pos = Len(solucao)
    /\ pc' = "retornou"
    /\ UNCHANGED <<instVars, solucao, repVars, evalVars, blVars, gaVars>>

NextEval == AvaliarBloco \/ AvaliarRetornar

SpecEval == InitEval /\ [][NextEval]_vars

\* the block the step from pos to pos' has scanned
Escaneado == solucao[pos + 1]

PassoDeAvaliacao == pc = "avaliando" /\ pos' = pos + 1

PredsContados(b) == \A p \in Range(preds_dict[b]) : p \in visitados

C5_Passo ==
    PassoDeAvaliacao =>
        IF dest_dict[Escaneado] # DestMinerio
        THEN ano' = ano /\ ton_acumulada' = ton_acumulada
        ELSE PredsContados(Escaneado) =>
             IF ton_acumulada + tonn_dict[Escaneado] > capacidade
             THEN ano' = ano + 1 /\ ton_acumulada' = tonn_dict[Escaneado]
             ELSE ano' = ano /\ ton_acumulada' = ton_acumulada + tonn_dict[Escaneado]

C5_Exemplos ==
    /\ pos = 0 => ano = 1 /\ ton_acumulada = 0
    /\ EhExemploAB /\ capacidade = 15 =>
         /\ pos = 1 => ano = 1
         /\ pos = 2 => ano = 2
    /\ EhExemplo /\ capacidade = 15 /\ solucao = <<0, 1, 2, 3>> =>
         /\ pos \in {1, 2} => ano = 1
         /\ pos \in {3, 4} => ano = 2

\* C5: a counted ore block opens a new period exactly when accumulated +
\* tonnage > capacity, a waste block never does; [A,B] with 10 t each and
\* capacity 15 ends in period 2, and the worked example [0,1,2,3] puts 0 and
\* 1 in period 1 and 2 and 3 in period 2.
C5_PeriodAssignment == [][C5_Passo]_vars /\ []C5_Exemplos

\* the worked example was evaluated to the end, with a rollover at block 2
\* and none at block 3 (10 + 5 = 15)
C5_Witness ==
    /\ pc = "retornou"
    /\ EhExemplo /\ solucao = <<0, 1, 2, 3>>
    /\ ano = 2 /\ ton_acumulada = 15

ContadosEmOrdem ==
    SelectSeq(SubSeq(solucao, 1, pos), LAMBDA b : b \in visitados)

C9_Passo ==
    PassoDeAvaliacao /\ ~PredsContados(Escaneado) =>
        /\ UNCHANGED <<valor_total, ano, ton_acumulada, visitados>>
        /\ Escaneado \notin visitados'

C9_Fechado ==
    /\ \A b \in visitados : \A p \in Range(preds_dict[b]) : p \in visitados
    /\ Factivel(ContadosEmOrdem)
    /\ Range(ContadosEmOrdem) = visitados

\* C9: a block with an uncounted predecessor is skipped without touching the
\* value, the period, the accumulated tonnage or the counted set; the counted
\* set is closed under predecessors and the counted blocks, in scan order,
\* are a feasible sequence.
C9_EvaluatorSkip == [][C9_Passo]_vars /\ []C9_Fechado

\* a block was skipped after another block had been counted
C9_Witness ==
    /\ pc = "retornou"
    /\ visitados # {}
    /\ \E i \in 1..Len(solucao) : solucao[i] \notin visitados


\* ================================================ baseline (SpecBaseline)
\* livres = [b for b, preds in preds_restantes.items()
\*           if not preds and b not in visitados]
livres ==
    {b \in Range(ids) : preds_restantes[b] = {} /\ b \notin bl_visitados}

InitBaseline ==
    /\ \E n \in 2..NumBlocks :
         /\ \E preds \in DAGs(n) :
              /\ InstanciaPadrao(n, preds)
              /\ preds_restantes = [b \in Blocos(n) |-> Range(preds[b])]
         /\ AtributosPadrao(n)
    /\ solucao = Nenhum
    /\ ordem = <<>> /\ bl_visitados = {} /\ bl_vpl = 0
    /\ RepOcioso /\ EvalOcioso /\ GaOcioso
    /\ pc = "baseline"

\* one iteration of the while loop that does not break
BaselineEscolher ==
    /\ pc = "baseline"
    /\ Len(ordem) < Len(ids)
    /\ \E b \in livres :
         /\ ordem' = Append(ordem, b)
         /\ bl_visitados' = bl_visitados \cup {b}
         /\ preds_restantes' =
              [s \in DOMAIN preds_restantes |->
                  IF s \in Range(succs_dict[b])
                  THEN preds_restantes[s] \ {b}
                  ELSE preds_restantes[s]]
    /\ UNCHANGED <<instVars, solucao, repVars, evalVars, bl_vpl, gaVars, pc>>

\* the loop ends (condition false, or break on no free block) and the
\* function returns ordem, calcular_vpl(ordem)
BaselineRetornar ==
    /\ pc = "baseline"
    /\ Len(ordem) >= Len(ids) \/ livres = {}
    /\ bl_vpl' = calcular_vpl(ordem, CapacidadePadrao)
    /\ pc' = "fim"
    /\ UNCHANGED <<instVars, solucao, repVars, evalVars, ordem, bl_visitados,
                   preds_restantes, gaVars>>

NextBaseline == BaselineEscolher \/ BaselineRetornar

SpecBaseline == InitBaseline /\ [][NextBaseline]_vars

\* the function is sequential code: it keeps running until it returns
SpecBaselineJusta == SpecBaseline /\ WF_vars(NextBaseline)

C6_Estado ==
    /\ pc = "baseline" /\ Len(ordem) < Len(ids) => livres # {}
    /\ Len(ordem) <= Len(ids)
    /\ pc = "fim" =>
         /\ EhPermutacao(ordem)
         /\ verificar_factibilidade(ordem)
         /\ Factivel(ordem)

\* C6: baseline_toposort returns, whatever blocks it draws; it never runs
\* out of free blocks before every block is placed, and the sequence it
\* returns has every id exactly once and is feasible.
C6_BaselineComplete == []C6_Estado /\ <>(pc = "fim")

\* the baseline returned on a 3-block chain
C6_Witness ==
    /\ pc = "fim"
    /\ Len(ids) = 3
    /\ \E a, b, c \in Range(ids) :
         /\ preds_dict[a] = <<>> /\ preds_dict[b] = <<a>> /\ preds_dict[c] = <<b>>
         /\ ordem = <<a, b, c>>


\* =================================================== MineLibCPIT (SpecLoad)
ColunasBasicas == {"id", "x", "y", "z", "precedentes"}
ColunasOpcionais == {"tonn", "dest", "val_ore"}

\* the z columns and the cells of a two-row file
ColunasZ == {<<0, 1>>, <<2, 0>>}

Celulas(c, zs) ==
    CASE c = "id" -> <<0, 1>>
      [] c = "x" -> <<0, 0>>
      [] c = "y" -> <<0, 0>>
      [] c = "z" -> zs
      [] c = "tonn" -> <<10, 5>>
      [] c = "dest" -> <<1, 2>>
      [] c = "val_ore" -> <<8, 0>>
      [] c = "precedentes" -> <<"[]", "[0]">>

\* eval(row.precedentes) on the bracketed lists the files hold
eval_precedentes(texto) ==
    CASE texto = "[]" -> <<>>
      [] texto = "[0]" -> <<0>>
      [] texto = "[1]" -> <<1>>
      [] texto = "[0,1]" -> <<0, 1>>

\* dict(zip(df["id"], df[c]))
DictDe(t, c) ==
    [b \in Range(t["id"]) |->
        t[c][CHOOSE i \in 1..Len(t["id"]) :
                /\ t["id"][i] = b
                /\ \A j \in (i + 1)..Len(t["id"]) : t["id"][j] # b]]

MaxDe(col) == CHOOSE m \in Range(col) : \A v \in Range(col) : v <= m

\* df.get(c, padrao)
Get(t, c, padrao) == IF c \in DOMAIN t THEN t[c] ELSE padrao

ComColuna(t, c, col) ==
    [k \in DOMAIN t \cup {c} |-> IF k = c THEN col ELSE t[k]]

InitLoad ==
    /\ \E cols \in SUBSET (ColunasBasicas \cup ColunasOpcionais) :
         \E zs \in ColunasZ :
            arquivo_csv = [c \in cols |-> Celulas(c, zs)]
    /\ df = arquivo_csv           \* pd.read_csv
    /\ ids = Nenhum /\ preds_dict = Nenhum /\ succs_dict = Nenhum
    /\ tonn_dict = Nenhum /\ dest_dict = Nenhum /\ val_ore_dict = Nenhum
    /\ erro = ""
    /\ solucao = Nenhum
    /\ RepOcioso /\ EvalOcioso /\ BlOcioso /\ GaOcioso
    /\ pc = "validar"

\* _validar_colunas, the second definition (it replaces the first)
ValidarColunas ==
    /\ pc = "validar"
    /\ LET faltando == ColunasBasicas \ DOMAIN df IN
       IF faltando # {}
       THEN erro' = "ValueError" /\ pc' = "falhou"
       ELSE erro' = erro /\ pc' = "preparar"
    /\ UNCHANGED <<arquivo_csv, df, ids, preds_dict, succs_dict, tonn_dict,
                   dest_dict, val_ore_dict, solucao, repVars, evalVars,
                   blVars, gaVars>>

\* _preparar_dados: the three dict(zip(...)) read their column before the
\* fallbacks on the last three lines create it
PrepararDados ==
    /\ pc = "preparar"
    /\ ids' = df["id"]
    /\ IF "tonn" \notin DOMAIN df
       THEN /\ erro' = "KeyError" /\ pc' = "falhou"
            /\ UNCHANGED <<df, tonn_dict, dest_dict, val_ore_dict,
                           preds_dict, succs_dict>>
       ELSE
       /\ tonn_dict' = DictDe(df, "tonn")
       /\ IF "dest" \notin DOMAIN df
          THEN /\ erro' = "KeyError" /\ pc' = "falhou"
               /\ UNCHANGED <<df, dest_dict, val_ore_dict, preds_dict,
                              succs_dict>>
          ELSE
          /\ dest_dict' = DictDe(df, "dest")
          /\ IF "val_ore" \notin DOMAIN df
             THEN /\ erro' = "KeyError" /\ pc' = "falhou"
                  /\ UNCHANGED <<df, val_ore_dict, preds_dict, succs_dict>>
             ELSE
             /\ val_ore_dict' = DictDe(df, "val_ore")
             /\ LET textos == DictDe(df, "precedentes")
                    preds == [b \in DOMAIN textos |->
                                 eval_precedentes(textos[b])]
                    n == Len(df["id"])
                    df1 == ComColuna(df, "tonn",
                              Get(df, "tonn", [i \in 1..n |-> TonnPadrao]))
                    df2 == ComColuna(df1, "val_ore",
                              Get(df1, "val_ore",
                                  [i \in 1..n |->
                                     (MaxDe(df1["z"]) - df1["z"][i])
                                        * ValorPorNivel]))
                    df3 == ComColuna(df2, "dest",
                              Get(df2, "dest", [i \in 1..n |-> DestPadrao]))
                IN /\ preds_dict' = preds
                   /\ succs_dict' = calcular_sucessores(df["id"], preds)
                   /\ df' = df3
             /\ erro' = erro /\ pc' = "carregado"
    /\ UNCHANGED <<arquivo_csv, solucao, repVars, evalVars, blVars, gaVars>>

NextLoad == ValidarColunas \/ PrepararDados

SpecLoad == InitLoad /\ [][NextLoad]_vars

Linhas == 1..Len(arquivo_csv["id"])

\* C8: the load fails, with the schema error, exactly when a basic column is
\* absent; with the five basic columns present it succeeds and an absent
\* tonn / dest / val_ore column is looked up as 100 / 1 / (max(z) - z) * 10.
C8_LoadSchema ==
    pc \in {"carregado", "falhou"} =>
        /\ pc = "falhou" <=> ~(ColunasBasicas \subseteq DOMAIN arquivo_csv)
        /\ pc = "falhou" => erro = "ValueError"
        /\ pc = "carregado" =>
             \A i \in Linhas :
                LET b == arquivo_csv["id"][i] IN
                /\ tonn_dict[b] =
                     IF "tonn" \in DOMAIN arquivo_csv
                     THEN arquivo_csv["tonn"][i] ELSE TonnPadrao
                /\ dest_dict[b] =
                     IF "dest" \in DOMAIN arquivo_csv
                     THEN arquivo_csv["dest"][i] ELSE DestPadrao
                /\ val_ore_dict[b] =
                     IF "val_ore" \in DOMAIN arquivo_csv
                     THEN arquivo_csv["val_ore"][i]
                     ELSE (MaxDe(arquivo_csv["z"]) - arquivo_csv["z"][i])
                             * ValorPorNivel


\* ======================================================= executar (SpecGA)
\* Lists are heap objects: pop, nova_pop and melhor_solucao hold addresses.
\* PopSize addresses for pop, PopSize for nova_pop and one for an elite kept
\* from an earlier generation.
Enderecos == 1..(2 * PopSize + 1)

Livre == <<>>

\* the allocator hands out the lowest free address
Novo(h) ==
    CHOOSE a \in Enderecos : h[a] = Livre /\ \A c \in 1..(a - 1) : h[c] # Livre

\* ore that fills most of a year of the default capacity, and light waste
PerfisGA ==
    {[dest |-> 1, tonn |-> 6000000, val |-> 4500010],
     [dest |-> 0, tonn |-> 4, val |-> 0]}

Fitness(h, populacao) ==
    [i \in 1..Len(populacao) |-> calcular_vpl(h[populacao[i]], CapacidadePadrao)]

\* The instances of the genetic runs are taken up to renaming of the ids
\* (no operator of executar compares ids): topologically numbered relations.
InitGA ==
    /\ \E n \in 2..NumBlocks :
         /\ \E preds \in DAGsNumerados(n) : InstanciaPadrao(n, preds)
         /\ \E pf \in [Blocos(n) -> PerfisGA] :
              /\ dest_dict = [b \in Blocos(n) |-> pf[b].dest]
              /\ tonn_dict = [b \in Blocos(n) |-> pf[b].tonn]
              /\ val_ore_dict = [b \in Blocos(n) |-> pf[b].val]
    /\ solucao = Nenhum
    /\ heap = [a \in Enderecos |-> Livre]
    /\ pop = <<>> /\ nova_pop = <<>>
    /\ melhor_solucao = 0 /\ melhor_vpl = MenosInf /\ historico = <<>>
    /\ g = 0
    /\ RepOcioso /\ EvalOcioso /\ BlOcioso
    /\ pc = "populacao"

\* one gerar_solucao_aleatoria() of gerar_populacao_inicial
GerarSolucaoAleatoria ==
    /\ pc = "populacao"
    /\ Len(pop) < PopSize
    /\ \E embaralhada \in Permutacoes(Len(ids)) :
         LET a == Novo(heap) IN
         /\ heap' = [heap EXCEPT ![a] = gerar_solucao_aleatoria(embaralhada)]
         /\ pop' = Append(pop, a)
    /\ UNCHANGED <<instVars, solucao, repVars, evalVars, blVars, nova_pop,
                   melhor_solucao, melhor_vpl, historico, g, pc>>

\* fitness of the initial population and the first elite
AvaliarInicial ==
    /\ pc = "populacao"
    /\ Len(pop) = PopSize
    /\ LET fitness == Fitness(heap, pop) IN
         /\ melhor_solucao' = pop[ArgMax(fitness)]
         /\ melhor_vpl' = MaxFit(fitness)
    /\ pc' = "geracao"
    /\ UNCHANGED <<instVars, solucao, repVars, evalVars, blVars, heap, pop,
                   nova_pop, historico, g>>

\* for g in range(num_geracoes): nova_pop = []
\* (the lists of the previous nova_pop that nothing references are freed)
IniciarGeracao ==
    /\ pc = "geracao"
    /\ g < NumGeracoes
    /\ nova_pop' = <<>>
    /\ heap' = [a \in Enderecos |->
                  IF a \in Range(pop) \cup {melhor_solucao}
                  THEN heap[a] ELSE Livre]
    /\ pc' = "reproducao"
    /\ UNCHANGED <<instVars, solucao, repVars, evalVars, blVars, pop,
                   melhor_solucao, melhor_vpl, historico, g>>

\* one iteration of "while len(nova_pop) < self.pop_size"; the parents come
\* from pop, which executar never replaces by nova_pop
Reproduzir ==
    /\ pc = "reproducao"
    /\ Len(nova_pop) < PopSize
    /\ \E i, j \in 1..Len(pop) :
         /\ i # j
         /\ \E a, b \in 0..(Len(ids) - 1) :
              /\ a < b
              /\ \E sorteio \in BOOLEAN :
                   \E mi, mj \in 0..(Len(ids) - 1) :
                      /\ mi # mj
                      /\ LET filho ==
                               mutacao(crossover(heap[pop[i]], heap[pop[j]], a, b),
                                       sorteio, mi, mj)
                             e == Novo(heap)
                         IN /\ heap' = [heap EXCEPT ![e] = filho]
                            /\ nova_pop' = Append(nova_pop, e)
    /\ UNCHANGED <<instVars, solucao, repVars, evalVars, blVars, pop,
                   melhor_solucao, melhor_vpl, historico, g, pc>>

\* fitness of nova_pop, elite update, historico.append
AtualizarElite ==
    /\ pc = "reproducao"
    /\ Len(nova_pop) = PopSize
    /\ LET elite == atualizar_elite(melhor_vpl, melhor_solucao,
                                    Fitness(heap, nova_pop), nova_pop)
       IN /\ melhor_vpl' = elite.vpl
          /\ melhor_solucao' = elite.sol
          /\ historico' = Append(historico, elite.vpl)
    /\ g' = g + 1
    /\ pc' = "geracao"
    /\ UNCHANGED <<instVars, solucao, repVars, evalVars, blVars, heap, pop,
                   nova_pop>>

\* return self.melhor_solucao, self.melhor_vpl
Retornar ==
    /\ pc = "geracao"
    /\ g = NumGeracoes
    /\ pc' = "fim"
    /\ UNCHANGED <<instVars, solucao, repVars, evalVars, blVars, gaVars>>

NextGA ==
    \/ GerarSolucaoAleatoria
    \/ AvaliarInicial
    \/ IniciarGeracao
    \/ Reproduzir
    \/ AtualizarElite
    \/ Retornar

SpecGA == InitGA /\ [][NextGA]_vars

\* the addresses the run still references
Vivos(p, np, ms) == Range(p) \cup Range(np) \cup ({ms} \ {0})

\* C1: every member of the population, every child and the elite is feasible.
C1_PopulationFeasible ==
    \A a \in Vivos(pop, nova_pop, melhor_solucao) :
        verificar_factibilidade(heap[a]) /\ Factivel(heap[a])

\* C7: the history of best values never decreases.
C7_HistoryMonotone ==
    \A k \in 1..(Len(historico) - 1) : historico[k] <= historico[k + 1]

\* two generations were recorded and the second improved on the first
C7_Witness ==
    /\ Len(historico) >= 2
    /\ historico[1] < historico[2]

C10_Valor ==
    melhor_solucao # 0 =>
        /\ heap[melhor_solucao] # Livre
        /\ melhor_vpl = calcular_vpl(heap[melhor_solucao], CapacidadePadrao)

C10_Passo ==
    /\ \A a \in Vivos(pop', nova_pop', melhor_solucao') :
          heap[a] # Livre => heap'[a] = heap[a]
    /\ melhor_solucao # 0 /\ heap'[melhor_solucao'] # heap[melhor_solucao] =>
          /\ pc = "reproducao" /\ Len(nova_pop) = PopSize
          /\ melhor_solucao' \in Range(nova_pop)
          /\ melhor_vpl' = MaxFit(Fitness(heap, nova_pop))
          /\ melhor_vpl' > melhor_vpl
    /\ melhor_solucao # 0 /\ melhor_vpl' # melhor_vpl =>
          heap'[melhor_solucao'] # heap[melhor_solucao]

\* C10: the elite value is the value of the elite sequence; the elite
\* sequence changes only when a generation's best is strictly greater; no
\* step writes into a list that is still referenced (the elite, the parents).
C10_EliteNotCorrupted == [][C10_Passo]_vars /\ []C10_Valor

\* the elite is a child of an earlier generation, kept while a later
\* generation was bred and evaluated
C10_Witness ==
    /\ pc = "fim"
    /\ melhor_solucao # 0
    /\ melhor_solucao \notin Range(pop)
    /\ melhor_solucao \notin Range(nova_pop)

=============================================================================
